---- MODULE Spec2Model ----
(***************************************************************************)
(* Model of winpcapy's capture session (class WinPcap in                   *)
(* src/winpcapy/winpcapy.py): the _handle/_callback fields, the context    *)
(* manager methods, run/stop/send and the packet handler that the native   *)
(* receive loop calls back; and of its device directory (class             *)
(* WinPcapDevices): the _all_devices field, the context manager methods,   *)
(* the iterator over the native list, list_devices and get_matching_device.*)
(*                                                                         *)
(* Two threads of execution act on one WinPcap instance: the thread that   *)
(* calls run() and is then blocked inside pcap_loop, and a second thread   *)
(* (or the callback itself, which receives the session) that may call      *)
(* __enter__, __exit__, stop and send at any moment.                       *)
(*                                                                         *)
(* Python values are modelled by strings: "None" is Python's None, "NULL"  *)
(* a ctypes null pointer object (which `is not None`), "H" the native      *)
(* handle a successful pcap_open_live returns.                             *)
(***************************************************************************)
EXTENDS Integers, Sequences, FiniteSets, TLC

\* Packets the native loop may see arrive during one run.
MaxPackets == 2
\* Cap on the number of __exit__ calls that reach pcap_close.
MaxCloses == 2
\* Longest native device list.
MaxDevs == 2
\* Cap on the number of WinPcapDevices.__exit__ calls that reach pcap_freealldevs.
MaxFrees == 2

\* The callbacks a caller may pass to run: two plain functions, one callable
\* object that is neither a function nor a bound method, and the default None.
Functions == {"f", "g"}
Callbacks == Functions \cup {"obj", "None"}

\* Header shapes of arriving packets: caplen bytes were captured of len bytes
\* on the wire (len > caplen: the packet was truncated to the snapshot length).
PacketShapes == { [caplen |-> 1, len |-> 1],
                  [caplen |-> 1, len |-> 2],
                  [caplen |-> 2, len |-> 2] }

\* The limits run is called with (0 and -1: unbounded).
Limits == (-1) .. MaxPackets

VARIABLES
    handle,      \* self._handle: "None", "NULL" or "H"
    callback,    \* self._callback
    nullAsNone,  \* how the binding hands back a NULL pcap_t* (None or a null pointer object)
    openOk,      \* number of native open-live calls that returned a handle
    closes,      \* number of pcap_close calls made on the handle H
    breakFlag,   \* the native handle's break-loop request flag
    loop,        \* the run() call of the runner thread and its native loop
    log,         \* callback invocations of the current run, in order
    res,         \* outcome of the last __enter__/__exit__/stop/send call
    crashed,     \* the process died in a native call on an invalid handle
    devices,     \* the native device list pcap_findalldevs hands out, in native order
    dir          \* a WinPcapDevices object, or a list_devices / get_matching_device call

sessVars == <<handle, callback, nullAsNone, openOk, closes, breakFlag, loop, log, res, crashed>>
devVars == <<devices, dir>>
vars == <<handle, callback, nullAsNone, openOk, closes, breakFlag, loop, log, res, crashed,
          devices, dir>>

\* The runner thread's run() call: arg and req are the callback and the limit it
\* was called with, limit the count given to pcap_loop, n the packets the native
\* loop has processed, status how the call stands ("raised": run raised err
\* before any native call), native the kind of handle pcap_loop was given.
\* early records that a break request was pending before the first packet,
\* raisedAt the first packet on which the user callback raised (0: none), inCb
\* the callback invocations in progress, and changed that an earlier run had
\* registered another callback.
IdleLoop == [active |-> FALSE, arg |-> "None", req |-> 0, limit |-> 0, n |-> 0,
             status |-> "idle", err |-> "none", native |-> "none",
             early |-> FALSE, raisedAt |-> 0, inCb |-> 0, changed |-> FALSE]

\* The session as the caller sees it: "new" while _handle is None, "dead" when a
\* failed open left a null pointer in it, "open" from a successful open until
\* the first pcap_close, "released" afterwards.  The spec's Closed state is
\* every state but "open".
SessionState ==
    CASE handle = "None" -> "new"
      [] handle = "NULL" -> "dead"
      [] OTHER -> IF closes = 0 THEN "open" ELSE "released"

\* Outcome of a call: the exception it raised, the kind of handle its native call
\* was given ("none": no native call), the native status, and the session state
\* the call found.
NoRes == [op |-> "init", err |-> "none", native |-> "none", status |-> "na", pre |-> "new"]

\* Which kind of handle a native call made now would be given.
HandleKind == IF handle = "H" THEN (IF closes = 0 THEN "live" ELSE "freed") ELSE "null"

SessionInit ==
    /\ handle = "None"
    /\ callback = "None"
    /\ nullAsNone \in BOOLEAN
    /\ openOk = 0
    /\ closes = 0
    /\ breakFlag = FALSE
    /\ loop = IdleLoop
    /\ log = <<>>
    /\ res = NoRes
    /\ crashed = FALSE

\* Device names and descriptions of the native list, as sequences of characters.
Names == {"n1", "n2"}
Descs == { <<"a">>, <<"b">>, <<"a", "b">>, <<"A", "b">> }
Devices == [name : Names, desc : Descs]
DeviceLists == UNION { [1..n -> Devices] : n \in 0..MaxDevs }

\* The glob patterns get_matching_device is called with.
Patterns == { <<"*">>, <<"a", "*">>, <<"*", "b">>, <<"?">>, <<"b", "?">> }

\* The two ways the directory is used: as a scope object (enter, iterate,
\* exit), or through the class methods, which make their own object.
Apis == {"scope", "listing"}

NoDirRes == [op |-> "init", err |-> "none", native |-> "none", pre |-> "new",
             items |-> <<>>, nth |-> 0]

\* A WinPcapDevices object after __init__ (allDevices is self._all_devices, allocs
\* and frees count the native lists obtained and the pcap_freealldevs calls, res
\* is the outcome of the last call on the object), and a class-method call
\* before it starts (pc its position, pos the entries read, dict the mapping
\* built so far, err the exception it ended with, found the matcher's answer).
NewDir(api) == [api |-> api, allDevices |-> "None", allocs |-> 0, frees |-> 0,
                res |-> NoDirRes,
                pc |-> "idle", pos |-> 0, dict |-> <<>>, err |-> "none",
                found |-> [glob |-> <<>>, name |-> "None", desc |-> <<>>]]

Init ==
    /\ SessionInit
    /\ devices = <<>>
    /\ dir = NewDir("scope")

\* What self._handle holds after pcap_open_live returned: the handle, or the
\* binding's rendering of a NULL pointer.
OpenLiveResult(ok) == IF ok THEN "H" ELSE (IF nullAsNone THEN "None" ELSE "NULL")

EnterGuardNoAssert(h) == TRUE
\* assert self._handle is None
EnterGuard(h) == h = "None"

\* WinPcap.__enter__
Enter ==
    /\ ~crashed
    /\ IF ~EnterGuard(handle)
       THEN /\ res' = [op |-> "enter", err |-> "AssertionError", native |-> "none",
                       status |-> "na", pre |-> SessionState]
            /\ UNCHANGED <<handle, openOk>>
       ELSE \E ok \in BOOLEAN :
            /\ handle' = OpenLiveResult(ok)
            /\ openOk' = IF ok THEN openOk + 1 ELSE openOk
            /\ res' = [op |-> "enter", err |-> "none", native |-> "open",
                       status |-> (IF ok THEN "ok" ELSE "fail"), pre |-> SessionState]
    /\ UNCHANGED <<callback, nullAsNone, closes, breakFlag, loop, log, crashed>>
    /\ UNCHANGED devVars

\* WinPcap.__exit__: pcap_close(self._handle) unless the field is None; the
\* field itself is left as it is.  pcap_close on a NULL or already released
\* handle is undefined in the native library: the process may die there.
Exit ==
    /\ ~crashed
    /\ IF handle = "None"
       THEN /\ res' = [op |-> "exit", err |-> "none", native |-> "none",
                       status |-> "na", pre |-> SessionState]
            /\ UNCHANGED <<closes, crashed>>
       ELSE /\ handle = "H" => closes < MaxCloses
            /\ closes' = IF handle = "H" THEN closes + 1 ELSE closes
            /\ res' = [op |-> "exit", err |-> "none", native |-> HandleKind,
                       status |-> "na", pre |-> SessionState]
            /\ IF HandleKind = "live" THEN crashed' = FALSE ELSE crashed' \in BOOLEAN
    /\ UNCHANGED <<handle, callback, nullAsNone, openOk, breakFlag, loop, log>>
    /\ UNCHANGED devVars

BreakLoopNoRequest(flag) == flag
\* pcap_breakloop on a live handle: the break request is set.
BreakLoop(flag) == TRUE

\* A stop that also forgets the registered callback.
StopResetsCallback ==
    /\ ~crashed
    /\ res' = [op |-> "stop", err |-> "none", native |-> HandleKind,
               status |-> "na", pre |-> SessionState]
    /\ callback' = "None"
    /\ IF HandleKind = "live"
       THEN /\ breakFlag' = BreakLoop(breakFlag)
            /\ loop' = IF loop.active /\ loop.n = 0
                       THEN [loop EXCEPT !.early = TRUE] ELSE loop
            /\ crashed' = FALSE
       ELSE /\ crashed' \in BOOLEAN
            /\ UNCHANGED <<breakFlag, loop>>
    /\ UNCHANGED <<handle, nullAsNone, openOk, closes, log>>
    /\ UNCHANGED devVars

\* WinPcap.stop: pcap_breakloop(self._handle), whatever the field holds.  On a
\* live handle the native call sets the break request and nothing else.
Stop ==
    /\ ~crashed
    /\ res' = [op |-> "stop", err |-> "none", native |-> HandleKind,
               status |-> "na", pre |-> SessionState]
    /\ IF HandleKind = "live"
       THEN /\ breakFlag' = BreakLoop(breakFlag)
            /\ loop' = IF loop.active /\ loop.n = 0
                       THEN [loop EXCEPT !.early = TRUE] ELSE loop
            /\ crashed' = FALSE
       ELSE /\ crashed' \in BOOLEAN
            /\ UNCHANGED <<breakFlag, loop>>
    /\ UNCHANGED <<handle, callback, nullAsNone, openOk, closes, log>>
    /\ UNCHANGED devVars

\* WinPcap.send: the assert, then pcap_sendpacket, whose status is dropped.
Send ==
    /\ ~crashed
    /\ IF handle = "None"
       THEN /\ res' = [op |-> "send", err |-> "AssertionError", native |-> "none",
                       status |-> "na", pre |-> SessionState]
            /\ crashed' = FALSE
       ELSE \E st \in {"ok", "fail"} :
            /\ res' = [op |-> "send", err |-> "none", native |-> HandleKind,
                       status |-> (IF HandleKind = "live" THEN st ELSE "na"),
                       pre |-> SessionState]
            /\ IF HandleKind = "live" THEN crashed' = FALSE ELSE crashed' \in BOOLEAN
    /\ UNCHANGED <<handle, callback, nullAsNone, openOk, closes, breakFlag, loop, log>>
    /\ UNCHANGED devVars

NativeLimitOffByOne(limit) == limit + 1
\* The count run hands to pcap_loop.
NativeLimit(limit) == limit

KeepFirstCallback(old, cb) == IF old = "None" THEN cb ELSE old
\* self._callback = callback
InstalledCallback(old, cb) == cb

\* WinPcap.run up to the point where the calling thread is inside pcap_loop.
\* On a NULL or released handle pcap_loop is undefined: the process dies or the
\* call comes back with an error.
Run ==
    /\ ~crashed
    /\ ~loop.active
    /\ \E cb \in Callbacks, limit \in Limits :
       IF handle = "None"
       THEN /\ loop' = [IdleLoop EXCEPT !.status = "raised", !.err = "AssertionError"]
            /\ UNCHANGED <<callback, log, crashed>>
       ELSE /\ callback' = InstalledCallback(callback, cb)
            /\ log' = <<>>
            /\ IF HandleKind = "live"
               THEN /\ loop' = [IdleLoop EXCEPT !.active = TRUE, !.status = "running",
                                  !.arg = cb, !.req = limit,
                                  !.limit = NativeLimit(limit), !.native = "live",
                                  !.early = breakFlag,
                                  !.changed = (callback \notin {"None", cb})]
                    /\ crashed' = FALSE
               ELSE /\ loop' = [IdleLoop EXCEPT !.status = "error", !.native = HandleKind]
                    /\ crashed' \in BOOLEAN
    /\ UNCHANGED <<handle, nullAsNone, openOk, closes, breakFlag, res>>
    /\ UNCHANGED devVars

HandlerReturnsEarly == FALSE
\* return self._callback(self, param, header, pkt_data): the handler, and with
\* it the native loop that called it, waits for the callback to return.
HandlerWaits == TRUE

\* The native loop finds the break request set: it clears it and returns -2.
LoopBreak ==
    /\ ~crashed
    /\ loop.active /\ closes = 0
    /\ breakFlag
    /\ HandlerWaits => loop.inCb = 0
    /\ breakFlag' = FALSE
    /\ loop' = [loop EXCEPT !.active = FALSE, !.status = "break", !.inCb = 0]
    /\ UNCHANGED <<handle, callback, nullAsNone, openOk, closes, log, res, crashed>>
    /\ UNCHANGED devVars

\* assert inspect.isfunction(self._callback) or inspect.ismethod(self._callback)
HandlerAssert(cb) == cb \in Functions

\* The number of bytes string_at copies from the native packet buffer.
PktDataLen(hdr) == hdr.len

\* The native loop has a packet and calls the wrapper of packet_handler, which
\* copies the data and calls the user callback.  When the assert fails the
\* exception leaves the ctypes callback, is reported on stderr and dropped, and
\* the native loop goes on: it returns 0 once the count has been processed.
LoopDeliver ==
    /\ ~crashed
    /\ loop.active /\ closes = 0
    /\ ~breakFlag
    /\ HandlerWaits => loop.inCb = 0
    /\ loop.n < MaxPackets
    /\ \E hdr \in PacketShapes :
       LET k == loop.n + 1
           called == HandlerAssert(callback)
           finished == ~called /\ loop.limit > 0 /\ k >= loop.limit
       IN /\ log' = IF called
                    THEN Append(log, [cb |-> callback, seq |-> k,
                                      nbytes |-> PktDataLen(hdr), caplen |-> hdr.caplen,
                                      len |-> hdr.len])
                    ELSE log
          /\ loop' = [loop EXCEPT !.n = k,
                                  !.inCb = IF called THEN loop.inCb + 1 ELSE loop.inCb,
                                  !.active = ~finished,
                                  !.status = IF finished THEN "done" ELSE "running"]
    /\ UNCHANGED <<handle, callback, nullAsNone, openOk, closes, breakFlag, res, crashed>>
    /\ UNCHANGED devVars

\* The user callback returns to packet_handler, normally or by raising.  An
\* exception leaving the ctypes callback is reported on stderr and dropped;
\* either way control is back in the native loop, which returns 0 once the
\* count has been processed.
CallbackReturn ==
    /\ ~crashed
    /\ loop.active /\ closes = 0
    /\ loop.inCb > 0
    /\ \E outcome \in {"ret", "raise"} :
       LET raisedAt == IF outcome = "raise" /\ loop.raisedAt = 0
                       THEN loop.n ELSE loop.raisedAt
           finished == loop.inCb = 1 /\ loop.limit > 0 /\ loop.n >= loop.limit
       IN loop' = [loop EXCEPT !.inCb = loop.inCb - 1, !.raisedAt = raisedAt,
                               !.active = ~finished,
                               !.status = IF finished THEN "done" ELSE "running"]
    /\ UNCHANGED <<handle, callback, nullAsNone, openOk, closes, breakFlag, log, res, crashed>>
    /\ UNCHANGED devVars

\* The native loop reports an unrecoverable error (-1).
LoopError ==
    /\ ~crashed
    /\ loop.active /\ closes = 0
    /\ ~breakFlag
    /\ HandlerWaits => loop.inCb = 0
    /\ loop' = [loop EXCEPT !.active = FALSE, !.status = "error", !.inCb = 0]
    /\ UNCHANGED <<handle, callback, nullAsNone, openOk, closes, breakFlag, log, res, crashed>>
    /\ UNCHANGED devVars

\* The native loop runs on a handle that __exit__ released under it: undefined
\* in the native library.  The process dies, or the loop comes back with an error.
LoopAfterClose ==
    /\ ~crashed
    /\ loop.active /\ closes > 0
    /\ \/ /\ crashed' = TRUE
          /\ UNCHANGED loop
       \/ /\ loop' = [loop EXCEPT !.active = FALSE, !.status = "error", !.inCb = 0]
          /\ UNCHANGED crashed
    /\ UNCHANGED <<handle, callback, nullAsNone, openOk, closes, breakFlag, log, res>>
    /\ UNCHANGED devVars

(***************************************************************************)
(* The device directory (class WinPcapDevices)                             *)
(***************************************************************************)

\* The native list is a chain of records: entry i is at address i, its next
\* field holds i + 1, and the last entry's next field, like the head of an
\* empty list, is the null pointer 0.
ListHead == IF Len(devices) = 0 THEN 0 ELSE 1
NextOf(ptr) == IF ptr < Len(devices) THEN ptr + 1 ELSE 0

RECURSIVE Walk(_)
Walk(ptr) == IF ptr = 0 THEN <<>> ELSE <<devices[ptr]>> \o Walk(NextOf(ptr))

TraverseFromSecond(head) == IF head = 0 THEN <<>> ELSE Walk(NextOf(head))
\* pcap_interface_iterator's loop: yield the entry, follow its next field, until
\* the pointer is null.
Traverse(head) == Walk(head)

\* The directory as its user sees it: "new" while _all_devices is None, "open"
\* from a successful enumeration until the first pcap_freealldevs, "closed"
\* afterwards.
DirState ==
    IF dir.allDevices = "None" THEN "new"
    ELSE IF dir.frees = 0 THEN "open" ELSE "closed"

\* WinPcapDevices.__enter__
DevEnter ==
    /\ ~crashed
    /\ dir.api = "scope"
    /\ IF dir.allDevices # "None"
       THEN dir' = [dir EXCEPT !.res = [op |-> "enter", err |-> "AssertionError",
                                        native |-> "none", pre |-> DirState,
                                        items |-> <<>>, nth |-> 0]]
       ELSE \E ok \in BOOLEAN :
            dir' = [dir EXCEPT
                      !.allDevices = IF ok THEN "L" ELSE "None",
                      !.allocs = IF ok THEN dir.allocs + 1 ELSE dir.allocs,
                      !.res = [op |-> "enter",
                               err |-> IF ok THEN "none" ELSE "PcapFindDevicesException",
                               native |-> "findalldevs", pre |-> DirState,
                               items |-> <<>>, nth |-> 0]]
    /\ UNCHANGED <<devices, sessVars>>

\* WinPcapDevices.__exit__: pcap_freealldevs(self._all_devices) unless the field
\* is None; the field itself is left as it is.  Freeing the list a second time
\* is undefined in the native library: the process may die there.
DevExit ==
    /\ ~crashed
    /\ dir.api = "scope"
    /\ IF dir.allDevices = "None"
       THEN /\ dir' = [dir EXCEPT !.res = [op |-> "exit", err |-> "none",
                                           native |-> "none", pre |-> DirState,
                                           items |-> <<>>, nth |-> 0]]
            /\ UNCHANGED crashed
       ELSE /\ dir.frees < MaxFrees
            /\ dir' = [dir EXCEPT
                         !.frees = dir.frees + 1,
                         !.res = [op |-> "exit", err |-> "none",
                                  native |-> IF dir.frees = 0 THEN "live" ELSE "freed",
                                  pre |-> DirState, items |-> <<>>, nth |-> 0]]
            /\ IF dir.frees = 0 THEN crashed' = FALSE ELSE crashed' \in BOOLEAN
    /\ UNCHANGED <<devices, handle, callback, nullAsNone, openOk, closes, breakFlag,
                   loop, log, res>>

\* WinPcapDevices.__iter__ / pcap_interface_iterator, run to exhaustion.  On a
\* list that __exit__ has released the walk reads freed memory, which is
\* undefined: the process may die, and what the walk yields is whatever the
\* memory holds (the old entries, or nothing).
DevIter ==
    /\ ~crashed
    /\ dir.api = "scope"
    /\ IF dir.allDevices = "None"
       THEN /\ dir' = [dir EXCEPT !.res = [op |-> "iter",
                                           err |-> "PcapFindDevicesException",
                                           native |-> "none", pre |-> DirState,
                                           items |-> <<>>, nth |-> 0]]
            /\ UNCHANGED crashed
       ELSE IF dir.frees = 0
       THEN /\ dir' = [dir EXCEPT !.res = [op |-> "iter", err |-> "none",
                                           native |-> "live", pre |-> DirState,
                                           items |-> Traverse(ListHead),
                                           nth |-> IF dir.res.op = "iter" /\ dir.res.nth < 2
                                                   THEN dir.res.nth + 1
                                                   ELSE IF dir.res.op = "iter" THEN 2 ELSE 1]]
            /\ UNCHANGED crashed
       ELSE /\ \E seen \in {<<>>, Traverse(ListHead)} :
               dir' = [dir EXCEPT !.res = [op |-> "iter", err |-> "none",
                                           native |-> "freed", pre |-> DirState,
                                           items |-> seen, nth |-> 0]]
            /\ crashed' \in BOOLEAN
    /\ UNCHANGED <<devices, handle, callback, nullAsNone, openOk, closes, breakFlag,
                   loop, log, res>>

\* A Python dict, as the sequence of its items in insertion order.
HasKey(d, k) == \E i \in DOMAIN d : d[i].name = k

\* res[name] = description: a new key goes to the end, a key already there keeps
\* its place and gets the new value.
DictSet(d, k, v) ==
    IF HasKey(d, k)
    THEN [i \in DOMAIN d |-> IF d[i].name = k THEN [name |-> k, desc |-> v] ELSE d[i]]
    ELSE Append(d, [name |-> k, desc |-> v])

WithExitSkipped(frees) == frees
\* Leaving the with block, normally or by an exception, calls __exit__, which
\* frees the list the block's object holds.
WithExit(frees) == frees + 1

\* list_devices: `with cls() as devices` enters a fresh object.
LdEnter ==
    /\ ~crashed
    /\ dir.api = "listing" /\ dir.pc = "idle"
    /\ \E ok \in BOOLEAN :
       dir' = IF ok
              THEN [dir EXCEPT !.pc = "iter", !.allDevices = "L", !.allocs = 1]
              ELSE [dir EXCEPT !.pc = "failed", !.err = "PcapFindDevicesException"]
    /\ UNCHANGED <<devices, sessVars>>

\* list_devices: one turn of the for loop.  Decoding the entry's name or
\* description may raise; the exception leaves the with block.
LdStep ==
    /\ ~crashed
    /\ dir.api = "listing" /\ dir.pc = "iter"
    /\ dir.pos < Len(Traverse(ListHead))
    /\ LET device == Traverse(ListHead)[dir.pos + 1]
       IN \E decoded \in BOOLEAN :
          dir' = IF decoded
                 THEN [dir EXCEPT !.pos = dir.pos + 1,
                                  !.dict = DictSet(dir.dict, device.name, device.desc)]
                 ELSE [dir EXCEPT !.pc = "failed", !.err = "UnicodeDecodeError",
                                  !.frees = WithExit(dir.frees)]
    /\ UNCHANGED <<devices, sessVars>>

\* list_devices: the iterator is exhausted, the with block is left and the
\* mapping returned.
LdReturn ==
    /\ ~crashed
    /\ dir.api = "listing" /\ dir.pc = "iter"
    /\ dir.pos = Len(Traverse(ListHead))
    /\ dir' = [dir EXCEPT !.pc = "done", !.frees = WithExit(dir.frees)]
    /\ UNCHANGED <<devices, sessVars>>

\* os.path.normcase on the platform of WinPcap: lower case.
NormCase(str) == [i \in DOMAIN str |-> IF str[i] = "A" THEN "a" ELSE str[i]]

RECURSIVE GlobMatch(_, _)
GlobMatch(str, pat) ==
    IF pat = <<>> THEN str = <<>>
    ELSE IF Head(pat) = "*"
    THEN GlobMatch(str, Tail(pat)) \/ (str # <<>> /\ GlobMatch(Tail(str), pat))
    ELSE /\ str # <<>>
         /\ Head(pat) = "?" \/ Head(pat) = Head(str)
         /\ GlobMatch(Tail(str), Tail(pat))

\* fnmatch.fnmatch(description, glob)
Fnmatch(str, pat) == GlobMatch(NormCase(str), NormCase(pat))

\* The loop of get_matching_device over the items of the mapping.
RECURSIVE FirstItem(_, _, _)
FirstItem(d, glob, i) ==
    IF i > Len(d) THEN [glob |-> glob, name |-> "None", desc |-> <<>>]
    ELSE IF Fnmatch(d[i].desc, glob)
    THEN [glob |-> glob, name |-> d[i].name, desc |-> d[i].desc]
    ELSE FirstItem(d, glob, i + 1)

\* get_matching_device, once its list_devices call has returned.
GetMatchingDevice ==
    /\ ~crashed
    /\ dir.api = "listing" /\ dir.pc = "done"
    /\ \E glob \in Patterns :
       dir' = [dir EXCEPT !.pc = "matched", !.found = FirstItem(dir.dict, glob, 1)]
    /\ UNCHANGED <<devices, sessVars>>

Next ==
    \/ Enter
    \/ Exit
    \/ Stop
    \/ Send
    \/ Run
    \/ LoopBreak
    \/ LoopDeliver
    \/ CallbackReturn
    \/ LoopError
    \/ LoopAfterClose

Spec == Init /\ [][Next]_vars

\* The native loop re-checks the break request whenever its read times out.
FairSpec == Spec /\ WF_vars(LoopBreak)

\* The device directory over every native list up to MaxDevs entries.
DevInit ==
    /\ SessionInit
    /\ ~nullAsNone
    /\ devices \in DeviceLists
    /\ dir \in {NewDir(api) : api \in Apis}

DevNext ==
    \/ DevEnter
    \/ DevExit
    \/ DevIter
    \/ LdEnter
    \/ LdStep
    \/ LdReturn
    \/ GetMatchingDevice

DevSpec == DevInit /\ [][DevNext]_vars

(***************************************************************************)
(* Claims C1..C10                                                          *)
(***************************************************************************)

\* C1: when the native open-live call returns a null handle, __enter__ fails
\* with OpenFailed, no handle is stored, and a session that never opened makes
\* no native call on a handle afterwards.
C1_OpenFailureRaises ==
    /\ (res.op = "enter" /\ res.status = "fail") =>
           (res.err = "OpenFailed" /\ handle = "None")
    /\ (openOk = 0 /\ res.op \in {"exit", "send"}) => res.native = "none"
    /\ openOk = 0 => loop.native = "none"

\* C2: send on a closed session (never opened, or opened and then closed)
\* raises and never reaches the native send-packet call.
C2_SendOnClosedRejected ==
    (res.op = "send" /\ res.pre \in {"new", "released"}) =>
        (res.err = "AssertionError" /\ res.native = "none")

\* C3: the native handle is never released while a receive loop is still
\* active on it.
C3_NoCloseUnderLoop == ~(loop.active /\ closes > 0)

\* C4: the handle obtained by a successful open is released at most once, a
\* repeated close never reaching the native close again.
C4_ReleasedOnce == closes <= 1

\* C5: an __enter__ on a session that is open, or that was opened and closed,
\* raises without calling native open-live, and at most one native open ever
\* succeeds on one session instance.
C5_SingleOpen ==
    /\ openOk <= 1
    /\ (res.op = "enter" /\ res.pre \in {"open", "released"}) =>
           (res.err = "AssertionError" /\ res.native = "none")
    /\ (res.op = "enter" /\ res.status = "ok") => res.pre = "new"

C5_Witness ==
    /\ res.op = "enter" /\ res.pre = "released" /\ res.err = "AssertionError"
    /\ openOk = 1

\* C6: run(callback, n) with n > 0 on an open session, given a function as
\* callback, returns from a completed count only after exactly n callback
\* invocations, for packets 1..n in arrival order, and never invokes the
\* callback more than n times; with n <= 0 the loop ends only on a break
\* request or a native error.
C6_LimitDelivered ==
    /\ (loop.status = "done" /\ loop.arg \in Functions) =>
           /\ loop.req > 0
           /\ Len(log) = loop.req
    /\ (loop.native = "live" /\ loop.arg \in Functions /\ closes = 0) =>
           /\ \A i \in DOMAIN log : log[i].seq = i
           /\ Len(log) = loop.n
           /\ loop.req > 0 => Len(log) <= loop.req
           /\ (loop.req > 0 /\ loop.status = "running" /\ loop.inCb = 0) =>
                  Len(log) < loop.req
    /\ (loop.native = "live" /\ loop.req <= 0 /\ ~loop.active /\ closes = 0) =>
           loop.status \in {"break", "error"}

C6_Witness ==
    /\ loop.status = "done" /\ loop.arg \in Functions
    /\ loop.req = 2 /\ Len(log) = 2 /\ log[1].seq = 1 /\ log[2].seq = 2
    /\ closes = 0

\* C7: once the user callback has raised during run, the callback is invoked
\* for no later packet of that run and run ends with that failure.
C7_CallbackFailurePropagates ==
    loop.raisedAt > 0 =>
        /\ loop.n = loop.raisedAt
        /\ ~loop.active => loop.err = "CallbackError"

\* C8: a stop() on the open session before any packet has been delivered makes
\* run return with zero callback invocations: no callback is invoked once the
\* break request is pending, and the loop returns.
C8_EarlyStop ==
    /\ [](loop.early => log = <<>>)
    /\ (loop.active /\ loop.early /\ closes = 0) ~> (~loop.active \/ closes > 0)

C8_Witness ==
    /\ loop.early /\ loop.status = "break" /\ loop.arg \in Functions
    /\ log = <<>> /\ res.op = "stop" /\ closes = 0

\* C9: stop() called while run is blocked in the receive loop only sets the
\* break request (the callback, the delivered packets, the handle and the loop's
\* progress are untouched), and the run then returns.
C9_StopFromOtherThread ==
    /\ [][Stop => /\ UNCHANGED <<handle, callback, log, openOk, closes>>
                  /\ loop'.n = loop.n /\ loop'.active = loop.active
                  /\ loop'.arg = loop.arg /\ loop'.limit = loop.limit]_vars
    /\ (loop.active /\ loop.inCb = 0 /\ breakFlag /\ closes = 0) ~>
           (~loop.active \/ closes > 0)

C9_Witness ==
    /\ loop.status = "break" /\ ~loop.early /\ loop.n > 0
    /\ res.op = "stop" /\ res.native = "live" /\ closes = 0

\* C10: the byte sequence handed to the callback has exactly caplen bytes, for
\* truncated packets too.
C10_DataIsCapturedLength ==
    \A i \in DOMAIN log : log[i].nbytes = log[i].caplen

(***************************************************************************)
(* Claims C13, C15, C17, C19, C20 (capture session)                        *)
(***************************************************************************)

\* C13: when pcap_sendpacket reports an error on an open session, send raises
\* SendFailed to its caller.
C13_SendFailureRaises ==
    (res.op = "send" /\ res.native = "live" /\ res.status = "fail") =>
        res.err = "SendFailed"

\* C15: a stop() while no receive loop is running is a no-op: it leaves the
\* break request as it was, and makes no native call when the session holds no
\* handle.
C15_IdleStopIsNoOp ==
    [][(Stop /\ ~loop.active) =>
           /\ breakFlag' = breakFlag
           /\ handle = "None" => res'.native = "none"]_vars

C19_RunOnClosedRejected ==
    (loop.status # "idle" /\ loop.native \in {"none", "freed"}) =>
        (loop.err = "AssertionError" /\ loop.native = "none")

\* C20: every packet delivered during a run is handed to the callback that was
\* passed to that run call.
C20_OwnCallback ==
    loop.native = "live" => \A i \in DOMAIN log : log[i].cb = loop.arg

C20_Witness ==
    /\ loop.native = "live" /\ loop.changed
    /\ Len(log) > 0 /\ log[1].cb = loop.arg

(***************************************************************************)
(* Claims C11, C12, C14, C16, C18 (device directory)                       *)
(***************************************************************************)

\* C11: iterating the directory after its scope was closed raises and never
\* walks the released list.
C11_IterAfterCloseFails ==
    (dir.res.op = "iter" /\ dir.res.pre = "closed") =>
        (dir.res.err # "none" /\ dir.res.native = "none")

\* C12: the native device list is released at most once per successful
\* enumeration, and never when no enumeration succeeded.
C12_ListReleasedOnce ==
    (dir.api = "scope") => dir.frees <= dir.allocs

\* The first device, in native order, whose description matches the pattern.
RECURSIVE FirstDevice(_, _)
FirstDevice(glob, i) ==
    IF i > Len(devices) THEN [glob |-> glob, name |-> "None", desc |-> <<>>]
    ELSE IF Fnmatch(devices[i].desc, glob)
    THEN [glob |-> glob, name |-> devices[i].name, desc |-> devices[i].desc]
    ELSE FirstDevice(glob, i + 1)

\* C14: get_matching_device returns the first device, in native order, whose
\* description matches the pattern, and (None, None) exactly when no
\* description matches, for every device list.
C14_FirstMatchInNativeOrder ==
    dir.pc = "matched" =>
        /\ dir.found = FirstDevice(dir.found.glob, 1)
        /\ dir.found.name = "None" <=>
               ~\E i \in DOMAIN devices : Fnmatch(devices[i].desc, dir.found.glob)

\* C16: within an open scope every iteration yields the entries of the native
\* list, each once and in native order, so repeated iterations agree.
C16_IterationYieldsList ==
    (dir.res.op = "iter" /\ dir.res.pre = "open") =>
        /\ Len(dir.res.items) = Len(devices)
        /\ \A i \in DOMAIN devices : dir.res.items[i] = devices[i]

C16_Witness ==
    /\ dir.res.op = "iter" /\ dir.res.pre = "open" /\ dir.res.nth = 2
    /\ Len(devices) = 2 /\ devices[1] # devices[2]
    /\ dir.res.items = devices

\* C18: once its enumeration succeeded, list_devices has freed the native list
\* exactly once when it returns or fails, and not before; when the enumeration
\* failed nothing is freed.
C18_ListingAlwaysReleases ==
    (dir.api = "listing") =>
        /\ dir.pc \in {"done", "matched"} => (dir.allocs = 1 /\ dir.frees = 1)
        /\ dir.pc = "failed" => dir.frees = dir.allocs
        /\ dir.pc = "iter" => (dir.allocs = 1 /\ dir.frees = 0)

C18_Witness ==
    /\ dir.api = "listing" /\ dir.pc = "failed" /\ dir.err = "UnicodeDecodeError"
    /\ dir.pos = 1 /\ dir.allocs = 1 /\ dir.frees = 1
====
